---- MODULE Spec2Model ----
(* Model of the P2PCF protocol test client (src/src/renderer.ts, lines 1-680):  *)
(* the module-level session state, the three transport handlers registered by   *)
(* createClient (peerconnect, peerclose, msg), handleIncoming, and the host     *)
(* operations sendPrompt, getModelInfo and the Connect button.                  *)
(*                                                                              *)
(* JavaScript strings are modelled as sequences of one-character strings, so    *)
(* that += is sequence concatenation and trim() works on characters.            *)
EXTENDS Integers, Sequences, FiniteSets, TLC

(* ---------------------------------------------------------------------------- *)
(* Bounds of the model                                                          *)
(* ---------------------------------------------------------------------------- *)

\* total number of characters the two stream buffers may hold
MaxBuf == 5

\* the largest reading of the clock: Date.now() returns a value in 0..MaxTime
MaxTime == 1

(* ---------------------------------------------------------------------------- *)
(* Values                                                                       *)
(* ---------------------------------------------------------------------------- *)

Peers == {"p1", "p2"}

\* JavaScript null for the peer reference
NoPeer == "null"

\* JavaScript null / undefined in a string-valued position; both differ from
\* every string, which is a sequence of one-character strings
Null == <<"null">>
Undefined == <<"undefined">>

IdA == <<"A">>

TokHel == <<"H", "e", "l">>
TokLo == <<"l", "o">>

Toks == {TokHel, TokLo}

\* !x for a string-or-undefined value x: undefined, null and "" are falsy
Falsy(x) == x = Undefined \/ x = Null \/ x = <<>>

IsString(x) == x # Undefined /\ x # Null

(* ---------------------------------------------------------------------------- *)
(* Date.now().toString(36) and the prompt id                                    *)
(* ---------------------------------------------------------------------------- *)

Digits36 ==
  << "0", "1", "2", "3", "4", "5", "6", "7", "8", "9", "a", "b", "c", "d", "e",
     "f", "g", "h", "i", "j", "k", "l", "m", "n", "o", "p", "q", "r", "s", "t",
     "u", "v", "w", "x", "y", "z" >>

RECURSIVE ToString36(_)
ToString36(n) ==
  IF n < 36 THEN << Digits36[n + 1] >>
  ELSE ToString36(n \div 36) \o << Digits36[(n % 36) + 1] >>

\* the readings of the wall clock: Date.now() is an input of sendPrompt
Times == 0..MaxTime

\* `test-${Date.now().toString(36)}`
PromptId(t) == << "t", "e", "s", "t", "-" >> \o ToString36(t)

(* ---------------------------------------------------------------------------- *)
(* Messages                                                                     *)
(* ---------------------------------------------------------------------------- *)

\* an object none of whose fields is present
NoFields ==
  [ t |-> "undefined", id |-> Undefined, tok |-> Undefined,
    compatible |-> FALSE, displayName |-> Undefined, installed |-> FALSE,
    message |-> Undefined ]

ModelM1 == << "m", "1" >>
ModelM2 == << "m", "2" >>
NameTest == << "T", "e", "s", "t" >>
NameOther == << "O" >>
MsgOom == << "o", "o", "m" >>

\* ids an incoming message may carry: an id no prompt has, the ids of the
\* prompts sent at the times up to `time`, and a missing id
IncomingIds(time) ==
  {IdA, Undefined} \cup {PromptId(t) : t \in 0..time}

\* {t: ty, id: i}, for start and end
IdMsg(ty, i) == [NoFields EXCEPT !.t = ty, !.id = i]

\* {t: ty, id: i, tok: k}, for token and reasoning_token
TokMsg(ty, i, k) == [NoFields EXCEPT !.t = ty, !.id = i, !.tok = k]

\* {t: 'error', id: i, message: text}
ErrorMsg(i, text) == [NoFields EXCEPT !.t = "error", !.id = i, !.message = text]

\* {t: 'version_ack', compatible: c}
AckMsg(c) == [NoFields EXCEPT !.t = "version_ack", !.compatible = c]

\* the tok field of a token message: a string, or not a string
TokValues == Toks \cup {Undefined}

IncomingMessages(time) ==
  {[NoFields EXCEPT !.t = "hello"]}
  \cup {AckMsg(c) : c \in BOOLEAN}
  \cup {[NoFields EXCEPT !.t = "model_info", !.id = ModelM1,
                         !.displayName = NameTest, !.installed = TRUE],
        [NoFields EXCEPT !.t = "model_info", !.id = ModelM2,
                         !.displayName = NameOther, !.installed = FALSE]}
  \cup {IdMsg(ty, i) : ty \in {"start", "end"}, i \in IncomingIds(time)}
  \cup {TokMsg(ty, i, k) :
          ty \in {"token", "reasoning_token"}, i \in IncomingIds(time),
          k \in TokValues}
  \cup {ErrorMsg(i, MsgOom) : i \in IncomingIds(time)}
  \cup {[NoFields EXCEPT !.t = "bogus"]}

\* the part of an outgoing message that only a prompt has: the messages array
\* and max_tokens, a set that is empty when the field is absent
NoBody == [messages |-> <<>>, max_tokens |-> {}]

\* one attempted p2pcf.send(peer, JSON.stringify(msg)); ok = FALSE when it threw
Sent(to, t, id, ok) ==
  [to |-> to, t |-> t, id |-> id, ok |-> ok, body |-> NoBody]

\* an attempted send of {t: 'prompt', id, messages, max_tokens?}
SentPrompt(to, id, ok, body) == [Sent(to, "prompt", id, ok) EXCEPT !.body = body]

\* one call setStatus(text, isError); detail is the interpolated part of the text
St(text, isError, detail) == [text |-> text, isError |-> isError, detail |-> detail]

\* msg.message || 'Unknown error'
UnknownError == << "Unknown error" >>

ErrorText(msg) == IF Falsy(msg.message) THEN UnknownError ELSE msg.message

\* the concatenation of a sequence of strings
RECURSIVE Concat(_)
Concat(ss) == IF ss = <<>> THEN <<>> ELSE Head(ss) \o Concat(Tail(ss))

(* ---------------------------------------------------------------------------- *)
(* State                                                                        *)
(* ---------------------------------------------------------------------------- *)

VARIABLES
  p2pcf,                  \* "null" or "client": the module-level client instance
  currentPeer,            \* NoPeer or the peer of the latest peerconnect
  currentPromptId,        \* Null or the active correlation id
  currentBuffer,          \* visible text reassembled so far
  currentReasoningBuffer, \* reasoning text reassembled so far
  isVersionNegotiated,
  isCompatible,
  currentModelInfo,       \* {} for null, or {record}
  statusLog,              \* the setStatus calls of the latest handler, in order
  connected,              \* transport: the peers with an open channel
  sendLog,                \* the sends attempted by the latest handler, in order
  peerAck,                \* the latest version_ack the current peer itself sent on
                          \* its connection: "none", "true" or "false"
  autoCount,              \* automatic get_model requests that reached the current
                          \* peer on its connection: 0, 1, or 2 for two or more
  startLog,               \* the start the latest handler accepted, if any: its id
                          \* and the id it took over from (Null when none)
  visibleToks,            \* tok values of the token messages that carried the
                          \* active id since it became active, in arrival order
  reasoningToks,          \* the same for reasoning_token messages
  msgLog                  \* the trace of the latest handler when it was given a
                          \* message whose handling leaves no status, send or
                          \* start behind, or when its prompt send threw: the
                          \* kind, the model record a model_info carried, and
                          \* whether a session or stream variable changed (or,
                          \* for a message, anything was sent)

sessionVars ==
  << currentPeer, isVersionNegotiated, isCompatible, currentModelInfo >>

streamVars == << currentPromptId, currentBuffer, currentReasoningBuffer >>

historyVars == << visibleToks, reasoningToks >>

vars ==
  << p2pcf, sessionVars, streamVars, statusLog, connected, sendLog,
     peerAck, autoCount, startLog, historyVars, msgLog >>

Init ==
  /\ p2pcf = "null"
  /\ currentPeer = NoPeer
  /\ currentPromptId = Null
  /\ currentBuffer = <<>>
  /\ currentReasoningBuffer = <<>>
  /\ isVersionNegotiated = FALSE
  /\ isCompatible = FALSE
  /\ currentModelInfo = {}
  /\ statusLog = <<>>
  /\ connected = {}
  /\ sendLog = <<>>
  /\ peerAck = "none"
  /\ autoCount = 0
  /\ startLog = <<>>
  /\ visibleToks = <<>>
  /\ reasoningToks = <<>>
  /\ msgLog = <<>>

(* ---------------------------------------------------------------------------- *)
(* createClient: the three transport handlers                                   *)
(* ---------------------------------------------------------------------------- *)

\* the sends of the peerconnect handler: hello and version_negotiate are sent
\* inside one try block, so a throwing hello send skips the second send
PeerConnectSends(peer, helloOk, negotiateOk) ==
  IF helloOk
    THEN << Sent(peer, "hello", Undefined, TRUE),
            Sent(peer, "version_negotiate", Undefined, negotiateOk) >>
    ELSE << Sent(peer, "hello", Undefined, FALSE) >>

\* the peerconnect handler resetting the negotiated flag only
PeerConnectKeepsCompatible(peer, helloOk, negotiateOk) ==
  /\ p2pcf # "null"
  /\ peer \notin connected
  /\ connected' = connected \cup {peer}
  /\ currentPeer' = peer
  /\ isVersionNegotiated' = FALSE
  /\ sendLog' = PeerConnectSends(peer, helloOk, negotiateOk)
  /\ statusLog' =
       << St("Connected to peer. Negotiating protocol version...", FALSE, <<>>) >>
       \o IF helloOk /\ negotiateOk
            THEN <<>>
            ELSE << St("Failed to negotiate protocol version", TRUE, <<>>) >>
  /\ peerAck' = "none"
  /\ autoCount' = 0
  /\ startLog' = <<>>
  /\ msgLog' = <<>>
  /\ UNCHANGED << p2pcf, streamVars, isCompatible, currentModelInfo, historyVars >>

\* instance.on('peerconnect'): the peer becomes the current peer and the
\* negotiation flags are reset
PeerConnect(peer, helloOk, negotiateOk) ==
  /\ p2pcf # "null"
  /\ peer \notin connected
  /\ connected' = connected \cup {peer}
  /\ currentPeer' = peer
  /\ isVersionNegotiated' = FALSE
  /\ isCompatible' = FALSE
  /\ sendLog' = PeerConnectSends(peer, helloOk, negotiateOk)
  /\ statusLog' =
       << St("Connected to peer. Negotiating protocol version...", FALSE, <<>>) >>
       \o IF helloOk /\ negotiateOk
            THEN <<>>
            ELSE << St("Failed to negotiate protocol version", TRUE, <<>>) >>
  /\ peerAck' = "none"
  /\ autoCount' = 0
  /\ startLog' = <<>>
  /\ msgLog' = <<>>
  /\ UNCHANGED << p2pcf, streamVars, currentModelInfo, historyVars >>

\* the peerclose handler resetting the flags but keeping the peer reference
PeerCloseKeepsPeer(peer) ==
  /\ p2pcf # "null"
  /\ peer \in connected
  /\ connected' = connected \ {peer}
  /\ statusLog' =
       << St("Peer disconnected. You may reconnect or wait for peer.", FALSE, <<>>) >>
  /\ IF currentPeer = peer
       THEN /\ UNCHANGED currentPeer
            /\ isVersionNegotiated' = FALSE
            /\ isCompatible' = FALSE
            /\ currentModelInfo' = {}
            /\ peerAck' = "none"
            /\ autoCount' = 0
       ELSE UNCHANGED << sessionVars, peerAck, autoCount >>
  /\ sendLog' = <<>>
  /\ startLog' = <<>>
  /\ msgLog' = <<>>
  /\ UNCHANGED << p2pcf, streamVars, historyVars >>

\* instance.on('peerclose'): the session is reset only when the closing peer is
\* the current peer; the stream variables are left alone
PeerClose(peer) ==
  /\ p2pcf # "null"
  /\ peer \in connected
  /\ connected' = connected \ {peer}
  /\ statusLog' =
       << St("Peer disconnected. You may reconnect or wait for peer.", FALSE, <<>>) >>
  /\ IF currentPeer = peer
       THEN /\ currentPeer' = NoPeer
            /\ isVersionNegotiated' = FALSE
            /\ isCompatible' = FALSE
            /\ currentModelInfo' = {}
            /\ peerAck' = "none"
            /\ autoCount' = 0
       ELSE UNCHANGED << sessionVars, peerAck, autoCount >>
  /\ sendLog' = <<>>
  /\ startLog' = <<>>
  /\ msgLog' = <<>>
  /\ UNCHANGED << p2pcf, streamVars, historyVars >>

(* ---------------------------------------------------------------------------- *)
(* handleIncoming                                                               *)
(* ---------------------------------------------------------------------------- *)

\* the send of case 'version_ack': a compatible ack requests the model info
\* from the current peer when there is one
AutoGetModelSends(msg, sendOk) ==
  IF msg.compatible /\ p2pcf # "null" /\ currentPeer # NoPeer
    THEN << Sent(currentPeer, "get_model", Undefined, sendOk) >>
    ELSE <<>>

\* case 'version_ack': the flags are overwritten
HandleVersionAck(msg, sendOk) ==
  /\ isVersionNegotiated' = TRUE
  /\ isCompatible' = msg.compatible
  /\ sendLog' = AutoGetModelSends(msg, sendOk)
  /\ statusLog' =
       IF msg.compatible
         THEN << St("Connected and ready. Protocol version compatible.", FALSE, <<>>) >>
         ELSE << St("Protocol version incompatible: ", TRUE, <<>>) >>
  /\ UNCHANGED << streamVars, currentModelInfo >>

\* HandleModelInfo that keeps the display name of a record already cached
HandleModelInfoMerges(msg) ==
  /\ currentModelInfo' =
       {[id |-> msg.id,
         displayName |-> IF currentModelInfo = {} THEN msg.displayName
                         ELSE (CHOOSE r \in currentModelInfo : TRUE).displayName,
         installed |-> msg.installed]}
  /\ sendLog' = <<>>
  /\ statusLog' = <<>>
  /\ UNCHANGED << streamVars, isVersionNegotiated, isCompatible >>

\* case 'model_info': the cached record is replaced as a whole
HandleModelInfo(msg) ==
  /\ currentModelInfo' =
       {[id |-> msg.id, displayName |-> msg.displayName,
         installed |-> msg.installed]}
  /\ sendLog' = <<>>
  /\ statusLog' = <<>>
  /\ UNCHANGED << streamVars, isVersionNegotiated, isCompatible >>

\* HandleStart that refuses a start while another id is active
HandleStartOnlyWhenIdle(msg) ==
  /\ IF Falsy(msg.id) \/ currentPromptId # Null
       THEN UNCHANGED streamVars
       ELSE /\ currentPromptId' = msg.id
            /\ currentBuffer' = <<>>
            /\ currentReasoningBuffer' = <<>>
  /\ sendLog' = <<>>
  /\ statusLog' = <<>>
  /\ UNCHANGED << isVersionNegotiated, isCompatible, currentModelInfo >>

\* HandleStart with the two buffer resets left out
HandleStartKeepsBuffers(msg) ==
  /\ IF Falsy(msg.id)
       THEN UNCHANGED currentPromptId
       ELSE currentPromptId' = msg.id
  /\ sendLog' = <<>>
  /\ statusLog' = <<>>
  /\ UNCHANGED << currentBuffer, currentReasoningBuffer, isVersionNegotiated,
                  isCompatible, currentModelInfo >>

\* case 'start'
HandleStart(msg) ==
  /\ IF Falsy(msg.id)
       THEN UNCHANGED streamVars
       ELSE /\ currentPromptId' = msg.id
            /\ currentBuffer' = <<>>
            /\ currentReasoningBuffer' = <<>>
  /\ sendLog' = <<>>
  /\ statusLog' = <<>>
  /\ UNCHANGED << isVersionNegotiated, isCompatible, currentModelInfo >>

\* the guard shared by token, reasoning_token and end:
\* !msg.id || msg.id !== currentPromptId
Mismatched(msg) == Falsy(msg.id) \/ msg.id # currentPromptId

\* HandleToken with the new text put in front of the buffer
HandleTokenPrepends(msg) ==
  /\ IF ~Mismatched(msg) /\ IsString(msg.tok)
       THEN currentBuffer' = msg.tok \o currentBuffer
       ELSE UNCHANGED currentBuffer
  /\ sendLog' = <<>>
  /\ statusLog' = <<>>
  /\ UNCHANGED << currentPromptId, currentReasoningBuffer, isVersionNegotiated,
                  isCompatible, currentModelInfo >>

\* case 'token'
HandleToken(msg) ==
  /\ IF ~Mismatched(msg) /\ IsString(msg.tok)
       THEN currentBuffer' = currentBuffer \o msg.tok
       ELSE UNCHANGED currentBuffer
  /\ sendLog' = <<>>
  /\ statusLog' = <<>>
  /\ UNCHANGED << currentPromptId, currentReasoningBuffer, isVersionNegotiated,
                  isCompatible, currentModelInfo >>

\* HandleReasoningToken appending to the visible buffer
HandleReasoningTokenToVisible(msg) ==
  /\ IF ~Mismatched(msg) /\ IsString(msg.tok)
       THEN currentBuffer' = currentBuffer \o msg.tok
       ELSE UNCHANGED currentBuffer
  /\ sendLog' = <<>>
  /\ statusLog' = <<>>
  /\ UNCHANGED << currentPromptId, currentReasoningBuffer, isVersionNegotiated,
                  isCompatible, currentModelInfo >>

\* case 'reasoning_token'
HandleReasoningToken(msg) ==
  /\ IF ~Mismatched(msg) /\ IsString(msg.tok)
       THEN currentReasoningBuffer' = currentReasoningBuffer \o msg.tok
       ELSE UNCHANGED currentReasoningBuffer
  /\ sendLog' = <<>>
  /\ statusLog' = <<>>
  /\ UNCHANGED << currentPromptId, currentBuffer, isVersionNegotiated,
                  isCompatible, currentModelInfo >>

\* HandleEnd without the id test: every end completes the stream
HandleEndAnyId(msg) ==
  /\ statusLog' = << St("Completion finished successfully.", FALSE, <<>>) >>
  /\ currentPromptId' = Null
  /\ sendLog' = <<>>
  /\ UNCHANGED << currentBuffer, currentReasoningBuffer, isVersionNegotiated,
                  isCompatible, currentModelInfo >>

\* case 'end'
HandleEnd(msg) ==
  /\ IF Mismatched(msg)
       THEN /\ statusLog' = <<>>
            /\ UNCHANGED currentPromptId
       ELSE /\ statusLog' = << St("Completion finished successfully.", FALSE, <<>>) >>
            /\ currentPromptId' = Null
  /\ sendLog' = <<>>
  /\ UNCHANGED << currentBuffer, currentReasoningBuffer, isVersionNegotiated,
                  isCompatible, currentModelInfo >>

\* HandleError with the active id left in place
HandleErrorKeepsId(msg) ==
  /\ statusLog' = << St("Error from server: ", TRUE, ErrorText(msg)) >>
  /\ sendLog' = <<>>
  /\ UNCHANGED << streamVars, isVersionNegotiated, isCompatible,
                  currentModelInfo >>

\* case 'error': the id test only selects the log line; the status is set and
\* the active id is cleared on every error message
HandleError(msg) ==
  /\ currentPromptId' = Null
  /\ statusLog' = << St("Error from server: ", TRUE, ErrorText(msg)) >>
  /\ sendLog' = <<>>
  /\ UNCHANGED << currentBuffer, currentReasoningBuffer, isVersionNegotiated,
                  isCompatible, currentModelInfo >>

\* HandleLogOnly that gives up the active stream on a message it only logs
HandleLogOnlyEndsStream(msg) ==
  /\ currentPromptId' = Null
  /\ sendLog' = <<>>
  /\ statusLog' = <<>>
  /\ UNCHANGED << currentBuffer, currentReasoningBuffer, isVersionNegotiated,
                  isCompatible, currentModelInfo >>

\* case 'hello' and default: logged only
HandleLogOnly(msg) ==
  /\ sendLog' = <<>>
  /\ statusLog' = <<>>
  /\ UNCHANGED << streamVars, isVersionNegotiated, isCompatible,
                  currentModelInfo >>

handleIncoming(msg, sendOk) ==
  CASE msg.t = "version_ack" -> HandleVersionAck(msg, sendOk)
    [] msg.t = "model_info" -> HandleModelInfo(msg)
    [] msg.t = "start" -> HandleStart(msg)
    [] msg.t = "token" -> HandleToken(msg)
    [] msg.t = "reasoning_token" -> HandleReasoningToken(msg)
    [] msg.t = "end" -> HandleEnd(msg)
    [] msg.t = "error" -> HandleError(msg)
    [] OTHER -> HandleLogOnly(msg)

\* the text a token message would add to the two buffers
Growth(msg) ==
  IF msg.t \in {"token", "reasoning_token"} /\ IsString(msg.tok)
    THEN Len(msg.tok)
    ELSE 0

\* the outcomes of the send a message can trigger: only a compatible
\* version_ack sends anything
SendOutcomes(msg) ==
  IF msg.t = "version_ack" /\ msg.compatible THEN BOOLEAN ELSE {TRUE}

\* what the wire has seen once msg from peer is handled: the latest
\* version_ack of the current peer, and the automatic get_model requests that
\* reached it
AckOf(msg) == IF msg.compatible THEN "true" ELSE "false"

CountAuto(log, count) ==
  IF log # <<>> /\ log[1].t = "get_model" /\ log[1].ok /\ count < 2
    THEN count + 1
    ELSE count

\* a message that carries the active id: msg.id is present and equals it
CarriesActiveId(msg) == ~Falsy(msg.id) /\ msg.id = currentPromptId

\* a start message that names a stream
BeginsStream(msg) == msg.t = "start" /\ ~Falsy(msg.id)

\* the record of the stream's accepted input: emptied when a stream begins,
\* extended by each token that carries the active id
Arrived(msg, ty, toks) ==
  IF BeginsStream(msg) THEN <<>>
  ELSE IF msg.t = ty /\ CarriesActiveId(msg) /\ IsString(msg.tok)
    THEN Append(toks, msg.tok)
    ELSE toks

\* the id a start message takes over from, if any
Superseded(msg) ==
  IF currentPromptId # msg.id THEN currentPromptId ELSE Null

\* what the handling of msg adds to the record of accepted starts
Started(msg) ==
  IF BeginsStream(msg)
    THEN << [id |-> msg.id, over |-> Superseded(msg)] >>
    ELSE <<>>

\* the values of msg.t that handleIncoming has a case for
KnownTypes ==
  { "hello", "version_ack", "model_info", "start", "token", "reasoning_token",
    "end", "error" }

\* the log line the handling of msg ends with, for the messages that leave no
\* status, send or start behind
MsgKind(msg) ==
  IF msg.t = "hello" THEN "hello"
  ELSE IF msg.t = "model_info" THEN "model_info"
  ELSE IF msg.t = "start" /\ Falsy(msg.id) THEN "start without id"
  ELSE IF msg.t = "end" /\ Mismatched(msg) THEN "end for mismatched id"
  ELSE IF msg.t \notin KnownTypes THEN "unknown type"
  ELSE "none"

\* the kinds the handler only logs
LoggedOnly ==
  { "hello", "start without id", "end for mismatched id", "unknown type",
    "dropped" }

\* the handler changed a session or stream variable
StateChanged == << sessionVars, streamVars >>' # << sessionVars, streamVars >>

\* the handler changed a session or stream variable, or attempted a send
Changed == StateChanged \/ sendLog' # <<>>

\* the record { id, displayName, installed } built from a model_info message
ModelRecord(msg) ==
  [id |-> msg.id, displayName |-> msg.displayName, installed |-> msg.installed]

MsgTrace(msg) ==
  IF MsgKind(msg) = "none" THEN <<>>
  ELSE << [ kind |-> MsgKind(msg),
            model |-> IF msg.t = "model_info" THEN {ModelRecord(msg)} ELSE {},
            changed |-> MsgKind(msg) \in LoggedOnly /\ Changed ] >>

\* instance.on('msg'): the handler ignores its peer argument, so it handles a
\* message whichever peer it is delivered for, on the client in use or on a
\* destroyed one, whose handlers stay registered
OnMsg(peer, msg, sendOk) ==
  /\ p2pcf # "null"
  /\ Len(currentBuffer) + Len(currentReasoningBuffer) + Growth(msg) <= MaxBuf
  /\ handleIncoming(msg, sendOk)
  /\ peerAck' = IF msg.t = "version_ack" /\ peer = currentPeer /\ peer \in connected
                  THEN AckOf(msg)
                  ELSE peerAck
  /\ autoCount' = IF msg.t = "version_ack"
                    THEN CountAuto(sendLog', autoCount)
                    ELSE autoCount
  /\ startLog' = Started(msg)
  /\ visibleToks' = Arrived(msg, "token", visibleToks)
  /\ reasoningToks' = Arrived(msg, "reasoning_token", reasoningToks)
  /\ UNCHANGED << p2pcf, currentPeer, connected >>
  /\ msgLog' = MsgTrace(msg)

\* payloads the msg handler gives up on before handleIncoming: a payload that
\* is neither text nor bytes, an empty text, a text that is not JSON, the JSON
\* text null, and JSON objects whose t is missing or not a string
DroppedPayloads ==
  { [type |-> "number", text |-> ""],
    [type |-> "string", text |-> ""],
    [type |-> "string", text |-> "oops"],
    [type |-> "string", text |-> "null"],
    [type |-> "string", text |-> "{}"],
    [type |-> "string", text |-> "{\"t\":1}"] }

\* the texts among them that JSON.parse accepts
JsonTexts == { "null", "{}", "{\"t\":1}" }

\* the early return the handler takes on data
DropReason(data) ==
  IF data.type # "string" \/ data.text = "" THEN "unsupported payload"
  ELSE IF data.text \notin JsonTexts THEN "non-JSON"
  ELSE "missing t"

\* instance.on('msg') on a payload that does not decode to a message: the
\* handler logs the reason and returns
OnDropped(peer, data) ==
  /\ p2pcf # "null"
  /\ DropReason(data) \in {"unsupported payload", "non-JSON", "missing t"}
  /\ sendLog' = <<>>
  /\ statusLog' = <<>>
  /\ startLog' = <<>>
  /\ UNCHANGED << p2pcf, sessionVars, streamVars, connected, peerAck,
                  autoCount, historyVars >>
  /\ msgLog' = << [kind |-> "dropped", model |-> {}, changed |-> Changed] >>

\* the JSON text of {t: 'start', id: 'A'}, and a text that is not JSON
StartAText == "{\"t\":\"start\",\"id\":\"A\"}"
JunkText == "oops"

\* the messages JSON.parse makes of the texts
ParsedTexts == [text \in {StartAText} |-> IdMsg("start", IdA)]

\* a binary payload: a buffer, or a Uint8Array view (a Buffer is one) of len
\* runs of a buffer starting at run from, its byteOffset and byteLength; own
\* tells whether the buffer is an instance of this realm's ArrayBuffer, which
\* a SharedArrayBuffer and the ArrayBuffer of another realm are not
Payload(type, segs, from, len, own) ==
  [type |-> type, segs |-> segs, from |-> from, len |-> len, own |-> own]

\* a message as a buffer of either kind, as a view of all of its buffer, and
\* as a view of the second run of a buffer of either kind that begins with
\* other bytes; and a view of both runs of such a buffer
BinaryPayloads ==
  { Payload("buffer", << StartAText >>, 1, 1, own) : own \in BOOLEAN }
  \cup { Payload("view", << JunkText, StartAText >>, 2, 1, own) : own \in BOOLEAN }
  \cup { Payload("view", << StartAText >>, 1, 1, TRUE),
         Payload("view", << JunkText, StartAText >>, 1, 2, TRUE) }

\* the bytes a payload consists of: all of a buffer, and of a view the range
\* it covers
ViewedBytes(data) == SubSeq(data.segs, data.from, data.from + data.len - 1)

\* the bytes given to TextDecoder: new Uint8Array(data) for an ArrayBuffer; for
\* a view new Uint8Array(data.buffer), the whole underlying buffer, when that
\* is an ArrayBuffer, and new Uint8Array(data), the view's own bytes, when it
\* is not; a buffer that is neither an ArrayBuffer nor a view gives null, which
\* the handler takes like the empty text
Decoded(data) ==
  IF data.type = "buffer"
    THEN IF data.own THEN data.segs ELSE <<>>
  ELSE IF data.own THEN data.segs
  ELSE ViewedBytes(data)

\* the text as the string payload it is handled like: a text of several runs
\* with junk among them is not JSON
AsString(text) ==
  [ type |-> "string",
    text |-> IF text = <<>> THEN ""
             ELSE IF Len(text) = 1 THEN text[1]
             ELSE JunkText ]

\* the msg handler from asString on: an empty text and a text that does not
\* parse to a message are dropped, a message goes to handleIncoming
OnDecoded(peer, text) ==
  IF AsString(text).text \in DOMAIN ParsedTexts
    THEN OnMsg(peer, ParsedTexts[AsString(text).text], TRUE)
    ELSE OnDropped(peer, AsString(text))

\* instance.on('msg') on a binary payload
OnBytes(peer, data) == OnDecoded(peer, Decoded(data))

(* ---------------------------------------------------------------------------- *)
(* Host operations                                                              *)
(* ---------------------------------------------------------------------------- *)

\* the status sendPrompt leaves when one of its three guards rejects the call
PromptRejection ==
  IF p2pcf = "null" \/ currentPeer = NoPeer
    THEN St("Cannot send prompt: not connected to any peer.", TRUE, <<>>)
  ELSE IF ~isVersionNegotiated
    THEN St("Waiting for protocol version negotiation...", TRUE, <<>>)
  ELSE St("Cannot send: protocol version incompatible with server", TRUE, <<>>)

\* the guards of sendPrompt and of getModelInfo pass
CanSend ==
  /\ p2pcf # "null"
  /\ currentPeer # NoPeer
  /\ isVersionNegotiated
  /\ isCompatible

\* the WhiteSpace and LineTerminator characters of JavaScript; a character
\* that cannot be written in a string of this module is named by its code point
WhiteSpace ==
  { " ", "\t", "\n", "\f", "\r", "U+000B", "U+00A0", "U+1680", "U+2000",
    "U+2001", "U+2002", "U+2003", "U+2004", "U+2005", "U+2006", "U+2007",
    "U+2008", "U+2009", "U+200A", "U+2028", "U+2029", "U+202F", "U+205F",
    "U+3000", "U+FEFF" }

\* the places of the characters of chars in s, and the first and the last of a
\* set of places
Positions(s, chars) == {i \in 1..Len(s) : s[i] \in chars}

First(places) == CHOOSE i \in places : \A j \in places : i <= j

Last(places) == CHOOSE i \in places : \A j \in places : j <= i

\* String.prototype.trim on the texts of the form: white space and line
\* terminators are removed from both ends
TrimStart(s) ==
  LET kept == {i \in 1..Len(s) : s[i] \notin WhiteSpace}
  IN  IF kept = {} THEN <<>> ELSE SubSeq(s, First(kept), Len(s))

TrimEnd(s) ==
  LET kept == {i \in 1..Len(s) : s[i] \notin WhiteSpace}
  IN  IF kept = {} THEN <<>> ELSE SubSeq(s, 1, Last(kept))

Trim(s) == TrimEnd(TrimStart(s))

\* the contents of the user message box, a textarea: empty as the page loads,
\* blank, or a text, with spaces, tabs or line breaks around it
UserTexts == { <<>>, << " ", "\n" >>, << "\t", "h", "i", " " >> }

\* the system prompt box as the page loads
DefaultSystemPrompt ==
  << "Y", "o", "u", " ", "a", "r", "e", " ", "a", " ", "h", "e", "l", "p", "f",
     "u", "l", " ", "a", "s", "s", "i", "s", "t", "a", "n", "t", "." >>

\* the contents of the system prompt box: cleared, blank, a text, or untouched
SystemTexts ==
  { <<>>, << " " >>, << "\t", "\n" >>, << " ", "B", "e", " " >>,
    << "\n", "B", "e", "\t" >>, DefaultSystemPrompt }

\* the max_tokens box as the page loads
DefaultMaxTokens == << "2", "5", "6" >>

InfinityLiteral == << "I", "n", "f", "i", "n", "i", "t", "y" >>

\* maxTokensEl.value as sendPrompt reads it. The box is an input of type
\* number, whose value is the empty string or a valid floating-point number
\* with a finite value: a text that is not a number, or one beyond the range
\* of a double, is read back as the empty string. The values are nothing,
\* zero, numbers with a sign, a fraction or an exponent, and the default
MaxTokensTexts ==
  { <<>>, << "0" >>, << "-", "5" >>, << "1", ".", "5" >>, << "2", "e", "1" >>,
    DefaultMaxTokens }

\* a JavaScript number: NaN, an infinity, or the finite value digits * 10^exp,
\* digits being a decimal numeral without leading or trailing zeros, empty for
\* zero; neg is the sign. A finite number is kept as the shortest decimal that
\* reads back as the same double, which is how JavaScript writes it
JsNumber(kind, neg, digits, exp) ==
  [kind |-> kind, neg |-> neg, digits |-> digits, exp |-> exp]

NaN == JsNumber("NaN", FALSE, <<>>, 0)

Zero == JsNumber("finite", FALSE, <<>>, 0)

InfinityOf(neg) == JsNumber("Infinity", neg, <<>>, 0)

DecimalDigits == << "0", "1", "2", "3", "4", "5", "6", "7", "8", "9" >>

AllDigits(s) ==
  \A i \in 1..Len(s) : \E d \in 1..Len(DecimalDigits) : DecimalDigits[d] = s[i]

DigitOf(c) == (CHOOSE d \in 1..Len(DecimalDigits) : DecimalDigits[d] = c) - 1

\* a natural number of any size is the tuple of its decimal digits, the most
\* significant first and the empty tuple for zero: the digits of a text, and
\* the text of such a number
Numeral(s) == [i \in 1..Len(s) |-> DigitOf(s[i])] \o <<>>

Written(x) == [i \in 1..Len(x) |-> DecimalDigits[x[i] + 1]] \o <<>>

Zeros(n) == [i \in 1..n |-> 0] \o <<>>

NonZeroPlaces(x) == {i \in 1..Len(x) : x[i] # 0}

\* x without its leading zeros, and without its trailing zeros
Stripped(x) ==
  IF NonZeroPlaces(x) = {} THEN <<>>
  ELSE SubSeq(x, First(NonZeroPlaces(x)), Len(x))

WithoutTrailingZeros(x) ==
  IF NonZeroPlaces(x) = {} THEN <<>>
  ELSE SubSeq(x, 1, Last(NonZeroPlaces(x)))

\* the value of a numeral of a few digits
RECURSIVE DecimalValue(_)
DecimalValue(x) ==
  IF x = <<>> THEN 0
  ELSE DecimalValue(SubSeq(x, 1, Len(x) - 1)) * 10 + x[Len(x)]

\* x < y, for numbers without leading zeros
Less(x, y) ==
  \/ Len(x) < Len(y)
  \/ /\ Len(x) = Len(y)
     /\ x # y
     /\ LET d == First({i \in 1..Len(x) : x[i] # y[i]}) IN x[d] < y[d]

Odd(x) == x # <<>> /\ x[Len(x)] % 2 = 1

\* 2x with one more digit than x: a digit of 2x is the last digit of twice
\* the digit of x, plus the carry of the digit to its right
Twice(x) ==
  [i \in 1..(Len(x) + 1) |->
     (IF i = 1 THEN 0 ELSE (2 * x[i - 1]) % 10)
     + (IF i <= Len(x) /\ x[i] >= 5 THEN 1 ELSE 0)] \o <<>>

Lead(x) == IF x # <<>> /\ x[1] = 0 THEN Tail(x) ELSE x

Double(x) == Lead(Twice(x))

\* 2x + b for a bit b
DoubleAdd(x, b) == LET r == Twice(x) IN Lead([r EXCEPT ![Len(r)] = @ + b])

\* x \div 2: a digit is half the digit of x, plus 5 when the digit to its left
\* is odd
Half(x) ==
  Lead([i \in 1..Len(x) |->
          x[i] \div 2 + (IF i > 1 /\ x[i - 1] % 2 = 1 THEN 5 ELSE 0)] \o <<>>)

\* x + 1, and x - 1 for x > 0
Increment(x) ==
  LET low == {i \in 1..Len(x) : x[i] # 9}
  IN  IF low = {} THEN << 1 >> \o Zeros(Len(x))
      ELSE [i \in 1..Len(x) |->
              IF i < Last(low) THEN x[i]
              ELSE IF i = Last(low) THEN x[i] + 1
              ELSE 0] \o <<>>

Decrement(x) ==
  LET p == Last(NonZeroPlaces(x))
  IN  Stripped([i \in 1..Len(x) |->
                  IF i < p THEN x[i] ELSE IF i = p THEN x[i] - 1 ELSE 9] \o <<>>)

\* x * 2^n
RECURSIVE Doubled(_, _)
Doubled(x, n) ==
  IF n <= 0 THEN x
  ELSE IF n = 1 THEN Double(x)
  ELSE LET y == Doubled(x, n \div 2)
       IN  IF y = <<>> THEN y ELSE Doubled(y, n - n \div 2)

\* x * 10^n / 2^n, that is x / 2^n written with n digits after the point
RECURSIVE Halvings(_, _)
Halvings(x, n) ==
  IF n <= 0 THEN x
  ELSE IF n = 1 THEN Half(x \o << 0 >>)
  ELSE LET y == Halvings(x, n \div 2)
       IN  IF y = <<>> THEN y ELSE Halvings(y, n - n \div 2)

\* 2^52 and 2^53, the bounds of the mantissa of a double
TwoTo52 == << 4, 5, 0, 3, 5, 9, 9, 6, 2, 7, 3, 7, 0, 4, 9, 6 >>

TwoTo53 == << 9, 0, 0, 7, 1, 9, 9, 2, 5, 4, 7, 4, 0, 9, 9, 2 >>

\* the value digits * 10^exp as an integer part and the digits after the point
Fixed(digits, exp) ==
  IF exp >= 0 THEN [int |-> digits \o Zeros(exp), frac |-> <<>>]
  ELSE IF 0 - exp >= Len(digits)
    THEN [int |-> <<>>, frac |-> Zeros(0 - exp - Len(digits)) \o digits]
  ELSE [int |-> SubSeq(digits, 1, Len(digits) + exp),
        frac |-> SubSeq(digits, Len(digits) + exp + 1, Len(digits))]

\* an integer of 2^53 or more is halved until it is below 2^53; round is the
\* bit shifted out last and sticky tells whether anything was lost before it
RECURSIVE ShiftedRight(_, _)
ShiftedRight(s, n) ==
  IF Less(s.int, TwoTo53) THEN s
  ELSE IF n = 1
    THEN [int |-> Half(s.int), round |-> Odd(s.int),
          sticky |-> s.sticky \/ s.round, count |-> s.count + 1]
  ELSE LET t == ShiftedRight(s, n \div 2)
       IN  IF Less(t.int, TwoTo53) THEN t ELSE ShiftedRight(t, n - n \div 2)

\* a value below 2^52 is doubled until its integer part is 2^52 or more, 1074
\* times at most, which is where the subnormal doubles end
RECURSIVE ShiftedLeft(_, _)
ShiftedLeft(s, n) ==
  IF ~Less(s.int, TwoTo52) \/ s.count = 1074 THEN s
  ELSE IF n = 1
    THEN LET r == Twice(s.int \o s.frac)
         IN  [int |-> Stripped(SubSeq(r, 1, Len(s.int) + 1)),
              frac |-> SubSeq(r, Len(s.int) + 2, Len(r)),
              count |-> s.count + 1]
  ELSE LET t == ShiftedLeft(s, n \div 2)
       IN  IF ~Less(t.int, TwoTo52) \/ t.count = 1074 THEN t
           ELSE ShiftedLeft(t, n - n \div 2)

\* the fraction 0.f against one half: "above", "half" or "below"
AgainstHalf(f) ==
  IF f = <<>> \/ f[1] < 5 THEN "below"
  ELSE IF f[1] > 5 \/ NonZeroPlaces(Tail(f)) # {} THEN "above"
  ELSE "half"

\* the double mant * 2^exp2, with a mantissa of 2^53 written as 2^52
Binary(mant, exp2) ==
  IF mant = TwoTo53 THEN [mant |-> TwoTo52, exp2 |-> exp2 + 1]
  ELSE [mant |-> mant, exp2 |-> exp2]

\* the integer part of s rounded by the digits after the point, and by the
\* bits shifted out, a tie going to the even mantissa
RoundedLeft(s) ==
  Binary(IF \/ AgainstHalf(s.frac) = "above"
            \/ AgainstHalf(s.frac) = "half" /\ Odd(s.int)
           THEN Increment(s.int)
           ELSE s.int,
         0 - s.count)

RoundedRight(s) ==
  Binary(IF s.round /\ (s.sticky \/ Odd(s.int)) THEN Increment(s.int) ELSE s.int,
         s.count)

\* the double nearest to the value int.frac: mant * 2^exp2 with mant below
\* 2^53, and 2^52 or more unless exp2 = -1074
Nearest(fixed) ==
  IF Less(fixed.int, TwoTo53)
    THEN RoundedLeft(ShiftedLeft([int |-> fixed.int, frac |-> fixed.frac,
                                  count |-> 0], 1074))
    ELSE RoundedRight(ShiftedRight([int |-> fixed.int, round |-> FALSE,
                                    sticky |-> NonZeroPlaces(fixed.frac) # {},
                                    count |-> 0], 1024))

\* m * 2^e as a number with -e digits after the point when e < 0
Scaled(m, e) == Stripped(IF e < 0 THEN Halvings(m, 0 - e) ELSE Doubled(m, e))

\* c lies between lo and hi, the two included when closed
Within(lo, hi, closed, c) ==
  IF closed THEN ~Less(c, lo) /\ ~Less(hi, c) ELSE Less(lo, c) /\ Less(c, hi)

\* x cut to its first j digits, rounded down, up, and to the nearer of the
\* two, a tie going to the even digit
Floor(x, j) == SubSeq(x, 1, j) \o Zeros(Len(x) - j)

Ceil(x, j) == Increment(SubSeq(x, 1, j)) \o Zeros(Len(x) - j)

Nearer(x, j) ==
  IF \/ AgainstHalf(SubSeq(x, j + 1, Len(x))) = "below"
     \/ AgainstHalf(SubSeq(x, j + 1, Len(x))) = "half" /\ ~Odd(SubSeq(x, 1, j))
    THEN Floor(x, j)
    ELSE Ceil(x, j)

\* the number of digits to which x can be cut and stay between lo and hi;
\* seventeen digits tell any two doubles apart
ShortestLength(lo, x, hi, closed) ==
  First({j \in 1..17 : \/ j >= Len(x)
                       \/ Within(lo, hi, closed, Floor(x, j))
                       \/ Within(lo, hi, closed, Ceil(x, j))})

\* x cut to k digits, to the nearer side when that stays between lo and hi
Cut(lo, x, hi, closed, k) ==
  IF k >= Len(x) THEN x
  ELSE IF Within(lo, hi, closed, Nearer(x, k)) THEN Nearer(x, k)
  ELSE IF Within(lo, hi, closed, Floor(x, k)) THEN Floor(x, k)
  ELSE Ceil(x, k)

\* the number c, scaled by 2^e, as digits and exponent
Decimal(c, e) ==
  [digits |-> WithoutTrailingZeros(c),
   exp |-> Len(c) - Len(WithoutTrailingZeros(c)) + (IF e < 0 THEN e ELSE 0)]

ShortestWithin(lo, x, hi, closed, e) ==
  Decimal(Cut(lo, x, hi, closed, ShortestLength(lo, x, hi, closed)), e)

\* the shortest decimal that reads back as the double b, and of several the
\* one nearest to b: its digits and its exponent. The decimals that read back
\* as b lie between the midpoints to the doubles next to b, the midpoints
\* themselves included when the mantissa of b is even; the double below a power
\* of two is half as far away as the double above it
Shortest(b) ==
  IF b.mant = TwoTo52 /\ b.exp2 > 0 - 1074
    THEN ShortestWithin(
           Scaled(DoubleAdd(DoubleAdd(Decrement(b.mant), 1), 1), b.exp2 - 2),
           Scaled(Double(Double(b.mant)), b.exp2 - 2),
           Scaled(Double(DoubleAdd(b.mant, 1)), b.exp2 - 2),
           TRUE, b.exp2 - 2)
    ELSE ShortestWithin(
           Scaled(DoubleAdd(Decrement(b.mant), 1), b.exp2 - 1),
           Scaled(Double(b.mant), b.exp2 - 1),
           Scaled(DoubleAdd(b.mant, 1), b.exp2 - 1),
           ~Odd(b.mant), b.exp2 - 1)

\* the finite number with the sign neg and the decimal d
Finite(neg, d) == JsNumber("finite", neg, Written(d.digits), d.exp)

\* the double b as a number: zero, an infinity when it is beyond the largest
\* double, or its shortest decimal
NumberOfDouble(neg, b) ==
  IF b.mant = <<>> THEN Zero
  ELSE IF b.exp2 > 971 THEN InfinityOf(neg)
  ELSE Finite(neg, Shortest(b))

\* the double for the value sig * 10^(order - Len(sig)), sig without leading
\* and trailing zeros. A value of 10^309 or more is an infinity and one below
\* 10^-324 is zero; a value of at most fifteen significant digits between
\* 10^-307 and 10^308 is the shortest decimal of its double; any other value
\* is rounded to the nearest double
RoundedAt(neg, sig, order) ==
  IF sig = <<>> THEN Zero
  ELSE IF order > 309 THEN InfinityOf(neg)
  ELSE IF order < 0 - 323 THEN Zero
  ELSE IF Len(sig) <= 15 /\ order >= 0 - 306 /\ order <= 308
    THEN JsNumber("finite", neg, Written(sig), order - Len(sig))
  ELSE NumberOfDouble(neg, Nearest(Fixed(sig, order - Len(sig))))

\* the double for the decimal value digits * 10^exp
Rounded(neg, digits, exp) ==
  RoundedAt(neg, WithoutTrailingZeros(Stripped(Numeral(digits))),
            Len(Stripped(Numeral(digits))) + exp)

\* the text before and the text after the first character of chars in s, which
\* is s and nothing when there is none
Before(s, chars) ==
  IF Positions(s, chars) = {} THEN s
  ELSE SubSeq(s, 1, First(Positions(s, chars)) - 1)

After(s, chars) ==
  IF Positions(s, chars) = {} THEN <<>>
  ELSE SubSeq(s, First(Positions(s, chars)) + 1, Len(s))

\* an exponent part after its e: digits with an optional sign
ValidExponent(s) ==
  /\ s # <<>>
  /\ AllDigits(IF Head(s) \in {"+", "-"} THEN Tail(s) ELSE s)
  /\ s \notin {<< "+" >>, << "-" >>}

\* its value; an exponent of more than nine digits is taken for 10^9, which no
\* mantissa text brings back into the range of the doubles
ExponentOf(s) ==
  LET digits ==
        Stripped(Numeral(IF Head(s) \in {"+", "-"} THEN Tail(s) ELSE s))
      size == IF Len(digits) > 9 THEN 1000000000 ELSE DecimalValue(digits)
  IN  IF Head(s) = "-" THEN 0 - size ELSE size

\* the value of an unsigned decimal literal: Infinity, or digits with an
\* optional fraction and an optional exponent part; a text that is not a
\* literal is NaN
UnsignedValue(s) ==
  IF s = InfinityLiteral THEN InfinityOf(FALSE)
  ELSE LET mantissa == Before(s, {"e", "E"})
           whole == Before(mantissa, {"."})
           fraction == After(mantissa, {"."})
       IN  IF /\ AllDigits(whole)
              /\ AllDigits(fraction)
              /\ whole \o fraction # <<>>
              /\ Positions(s, {"e", "E"}) # {} => ValidExponent(After(s, {"e", "E"}))
             THEN Rounded(FALSE, whole \o fraction,
                          (IF Positions(s, {"e", "E"}) = {} THEN 0
                           ELSE ExponentOf(After(s, {"e", "E"})))
                          - Len(fraction))
             ELSE NaN

\* the radix of a literal 0x.., 0o.. or 0b.., and 0 for any other text
RadixOf(s) ==
  IF Len(s) > 2 /\ s[1] = "0"
    THEN IF s[2] \in {"x", "X"} THEN 16
         ELSE IF s[2] \in {"o", "O"} THEN 8
         ELSE IF s[2] \in {"b", "B"} THEN 2
         ELSE 0
    ELSE 0

UpperHex == << "A", "B", "C", "D", "E", "F" >>

\* the value of a digit of such a literal; 36 for a character that is none
RadixDigit(c) ==
  IF \E d \in 1..Len(Digits36) : Digits36[d] = c
    THEN (CHOOSE d \in 1..Len(Digits36) : Digits36[d] = c) - 1
  ELSE IF \E d \in 1..Len(UpperHex) : UpperHex[d] = c
    THEN (CHOOSE d \in 1..Len(UpperHex) : UpperHex[d] = c) + 9
  ELSE 36

\* the bits of the digits s of a literal of radix 16, 8 or 2
RadixBits(s, radix) ==
  LET width == IF radix = 16 THEN 4 ELSE IF radix = 8 THEN 3 ELSE 1
  IN  [i \in 1..(Len(s) * width) |->
         (RadixDigit(s[(i - 1) \div width + 1])
            \div 2 ^ (width - 1 - ((i - 1) % width))) % 2] \o <<>>

\* x followed by the bits from lo to hi: each bit doubles the number and is
\* added to it
RECURSIVE WithBits(_, _, _, _)
WithBits(x, bits, lo, hi) ==
  IF lo > hi THEN x
  ELSE IF lo = hi THEN DoubleAdd(x, bits[lo])
  ELSE LET y == WithBits(x, bits, lo, (lo + hi) \div 2)
       IN  IF y = <<>> THEN WithBits(<<>>, bits, (lo + hi) \div 2 + 1, hi)
           ELSE WithBits(y, bits, (lo + hi) \div 2 + 1, hi)

\* the value of the digits s in the radix, as a decimal text
RadixValue(s, radix) ==
  Written(WithBits(<<>>, RadixBits(s, radix), 1, Len(RadixBits(s, radix))))

\* -n; NaN and zero are written without a sign
Negated(n) ==
  IF n.kind = "NaN" \/ n = Zero THEN n ELSE [n EXCEPT !.neg = ~n.neg]

\* n with the sign of its literal
Signed(minus, n) == IF minus THEN Negated(n) ELSE n

\* Number(text): white space is trimmed and the empty text is 0; then a
\* literal with a radix prefix, or a decimal literal with an optional sign
NumberOf(text) ==
  LET s == Trim(text)
  IN  IF s = <<>> THEN Zero
      ELSE IF RadixOf(s) # 0
        THEN IF \A i \in 3..Len(s) : RadixDigit(s[i]) < RadixOf(s)
               THEN Rounded(FALSE, RadixValue(SubSeq(s, 3, Len(s)), RadixOf(s)), 0)
               ELSE NaN
      ELSE Signed(Head(s) = "-",
                  UnsignedValue(IF Head(s) \in {"+", "-"} THEN Tail(s) ELSE s))

\* a number in a boolean position: 0 and NaN are falsy
Truthy(n) == ~(n.kind = "NaN" \/ n = Zero)

\* Number(maxTokensEl.value) || undefined, the empty set being undefined
MaxTokensOf(value) == { n \in {NumberOf(value)} : Truthy(n) }

\* msg.max_tokens assigned whenever maxTokens is truthy
PositiveMaxTokensUnchecked(value) == MaxTokensOf(value)

\* maxTokens && maxTokens > 0: the values assigned to msg.max_tokens
PositiveMaxTokens(value) == { n \in MaxTokensOf(value) : ~n.neg }

\* JSON.stringify of a number: a value that is not finite is written as null
StringifyNumber(n) ==
  IF n.kind = "finite" THEN n ELSE JsNumber("null", FALSE, <<>>, 0)

\* messages with the system message, if any, pushed after the user message
BuildMessagesSystemLast(system, user) ==
  << [role |-> "user", content |-> Trim(user)] >>
  \o (IF Trim(system) # <<>>
        THEN << [role |-> "system", content |-> Trim(system)] >>
        ELSE <<>>)

\* the messages array: the system message when the trimmed system prompt is not
\* empty, then the user message
BuildMessages(system, user) ==
  (IF Trim(system) # <<>>
     THEN << [role |-> "system", content |-> Trim(system)] >>
     ELSE <<>>)
  \o << [role |-> "user", content |-> Trim(user)] >>

\* messages and max_tokens of the prompt as JSON.stringify writes them
PromptBody(system, user, maxTokens) ==
  [ messages |-> BuildMessages(system, user),
    max_tokens |-> { StringifyNumber(n) : n \in PositiveMaxTokens(maxTokens) } ]

\* the user message is taken for blank only when the box is empty
BlankUserUntrimmed(user) == user = <<>>

\* !userPrompt: the trimmed user message is empty
BlankUser(user) == Trim(user) = <<>>

\* what sendPrompt leaves in the handler's trace once the guards are passed
PromptTrace(user, sendOk) ==
  IF ~CanSend THEN <<>>
  ELSE << [ kind |-> IF BlankUser(user) THEN "blank user message"
                     ELSE IF sendOk THEN "prompt sent"
                     ELSE "prompt not sent",
            model |-> {},
            changed |-> StateChanged ] >>

\* the assignments after a send that returned: the new id becomes the active id
\* and both buffers are emptied
PromptAccepted(id) ==
  /\ statusLog' =
       << St("Prompt sent. Waiting for streamed tokens...", FALSE, <<>>) >>
  /\ currentPromptId' = id
  /\ currentBuffer' = <<>>
  /\ currentReasoningBuffer' = <<>>
  /\ visibleToks' = <<>>
  /\ reasoningToks' = <<>>

\* sendPrompt with the active id assigned before the send is attempted
sendPromptSetsIdFirst(system, user, maxTokens, time, sendOk) ==
  /\ p2pcf # "null"
  /\ IF CanSend /\ BlankUser(user)
       THEN /\ sendLog' = <<>>
            /\ statusLog' =
                 << St("Enter a user message before sending.", TRUE, <<>>) >>
            /\ UNCHANGED << streamVars, historyVars >>
     ELSE IF CanSend
       THEN /\ sendLog' =
                 << SentPrompt(currentPeer, PromptId(time), sendOk,
                               PromptBody(system, user, maxTokens)) >>
            /\ IF sendOk
                 THEN PromptAccepted(PromptId(time))
                 ELSE /\ currentPromptId' = PromptId(time)
                      /\ statusLog' =
                           << St("Failed to send prompt over P2PCF.", TRUE, <<>>) >>
                      /\ UNCHANGED << currentBuffer, currentReasoningBuffer,
                                      historyVars >>
       ELSE /\ sendLog' = <<>>
            /\ statusLog' = << PromptRejection >>
            /\ UNCHANGED << streamVars, historyVars >>
  /\ startLog' = <<>>
  /\ UNCHANGED << p2pcf, sessionVars, connected, peerAck, autoCount >>
  /\ msgLog' = PromptTrace(user, sendOk)

\* sendPrompt: the three guards, then the form is read and a blank user message
\* is rejected before anything is sent; the request is built and sent; on a
\* send that returned the new id becomes the active id and both buffers are
\* emptied, and a throwing send leaves the stream variables alone
sendPrompt(system, user, maxTokens, time, sendOk) ==
  /\ p2pcf # "null"
  /\ IF CanSend /\ BlankUser(user)
       THEN /\ sendLog' = <<>>
            /\ statusLog' =
                 << St("Enter a user message before sending.", TRUE, <<>>) >>
            /\ UNCHANGED << streamVars, historyVars >>
     ELSE IF CanSend
       THEN /\ sendLog' =
                 << SentPrompt(currentPeer, PromptId(time), sendOk,
                               PromptBody(system, user, maxTokens)) >>
            /\ IF sendOk
                 THEN PromptAccepted(PromptId(time))
                 ELSE /\ statusLog' =
                           << St("Failed to send prompt over P2PCF.", TRUE, <<>>) >>
                      /\ UNCHANGED << streamVars, historyVars >>
       ELSE /\ sendLog' = <<>>
            /\ statusLog' = << PromptRejection >>
            /\ UNCHANGED << streamVars, historyVars >>
  /\ startLog' = <<>>
  /\ UNCHANGED << p2pcf, sessionVars, connected, peerAck, autoCount >>
  /\ msgLog' = PromptTrace(user, sendOk)

\* the status getModelInfo leaves when one of its two guards rejects the call
ModelInfoRejection ==
  IF p2pcf = "null" \/ currentPeer = NoPeer
    THEN St("Cannot get model info: not connected to any peer.", TRUE, <<>>)
    ELSE St("Waiting for protocol version negotiation...", TRUE, <<>>)

\* getModelInfo
getModelInfo(sendOk) ==
  /\ p2pcf # "null"
  /\ IF CanSend
       THEN /\ sendLog' = << Sent(currentPeer, "get_model", Undefined, sendOk) >>
            /\ statusLog' =
                 IF sendOk
                   THEN << St("Model info request sent...", FALSE, <<>>) >>
                   ELSE << St("Failed to send model info request", TRUE, <<>>) >>
       ELSE /\ sendLog' = <<>>
            /\ statusLog' = << ModelInfoRejection >>
  /\ startLog' = <<>>
  /\ msgLog' = <<>>
  /\ UNCHANGED << p2pcf, sessionVars, streamVars, connected, peerAck,
                  autoCount, historyVars >>

\* what destroy() of the previous client may do before it returns: emit
\* peerclose for any of the peers connected on it
DestroyOutcomes == SUBSET connected

\* connectBtn.onclick: the previous client, if any, is destroyed, and the
\* peerclose handler runs for each peer of closed, for which destroy() emits
\* the event; then a new client is created. The handler itself assigns none of
\* the session and stream variables
ConnectClick(closed) ==
  /\ closed \in DestroyOutcomes
  /\ p2pcf' = "client"
  /\ connected' = {}
  /\ statusLog' =
       [ i \in 1..Cardinality(closed) |->
           St("Peer disconnected. You may reconnect or wait for peer.", FALSE, <<>>) ]
       \o << St("Connecting to room", FALSE, <<>>),
             St("Connecting (polling for peers)...", FALSE, <<>>) >>
  /\ IF currentPeer \in closed
       THEN /\ currentPeer' = NoPeer
            /\ isVersionNegotiated' = FALSE
            /\ isCompatible' = FALSE
            /\ currentModelInfo' = {}
       ELSE UNCHANGED sessionVars
  /\ sendLog' = <<>>
  /\ peerAck' = "none"
  /\ autoCount' = 0
  /\ startLog' = <<>>
  /\ msgLog' = <<>>
  /\ UNCHANGED << streamVars, historyVars >>

\* instance.on('peerclose') run for a peer object that has no open channel on
\* the client in use, as a peer of a destroyed client, whose handlers stay
\* registered: the status is set, and the session is reset when the object is
\* the one currentPeer refers to (same), which it can only be when the current
\* peer has no open channel itself
LatePeerClose(peer, same) ==
  /\ p2pcf # "null"
  /\ same => (currentPeer = peer /\ peer \notin connected)
  /\ statusLog' =
       << St("Peer disconnected. You may reconnect or wait for peer.", FALSE, <<>>) >>
  /\ IF same
       THEN /\ currentPeer' = NoPeer
            /\ isVersionNegotiated' = FALSE
            /\ isCompatible' = FALSE
            /\ currentModelInfo' = {}
            /\ peerAck' = "none"
            /\ autoCount' = 0
       ELSE UNCHANGED << sessionVars, peerAck, autoCount >>
  /\ sendLog' = <<>>
  /\ startLog' = <<>>
  /\ msgLog' = <<>>
  /\ UNCHANGED << p2pcf, connected, streamVars, historyVars >>

\* the peers without an open channel on the client in use, for which the
\* transport may still deliver a message: peers of a destroyed client, peers
\* that have disconnected and peers that never connected
StrayPeers == Peers \ connected

Next ==
  \/ \E peer \in Peers, helloOk \in BOOLEAN, negotiateOk \in BOOLEAN :
       PeerConnect(peer, helloOk, negotiateOk)
  \/ \E peer \in Peers : PeerClose(peer)
  \/ \E peer \in connected \cup StrayPeers, msg \in IncomingMessages(MaxTime) :
       \E sendOk \in SendOutcomes(msg) : OnMsg(peer, msg, sendOk)
  \/ \E peer \in connected \cup StrayPeers, data \in DroppedPayloads :
       OnDropped(peer, data)
  \/ \E peer \in connected \cup StrayPeers, data \in BinaryPayloads :
       OnBytes(peer, data)
  \/ \E user \in UserTexts, time \in Times, sendOk \in BOOLEAN :
       sendPrompt(DefaultSystemPrompt, user, DefaultMaxTokens, time, sendOk)
  \/ \E sendOk \in BOOLEAN : getModelInfo(sendOk)
  \/ \E closed \in DestroyOutcomes : ConnectClick(closed)
  \/ \E peer \in Peers, same \in BOOLEAN : LatePeerClose(peer, same)

Spec == Init /\ [][Next]_vars

\* the Connect button pressed once, by the click made at load, and never again
LoadClick == p2pcf = "null" /\ ConnectClick({})

\* one client, whose transport delivers the events of its open channels only
NextOneClient ==
  \/ \E peer \in Peers, helloOk \in BOOLEAN, negotiateOk \in BOOLEAN :
       PeerConnect(peer, helloOk, negotiateOk)
  \/ \E peer \in Peers : PeerClose(peer)
  \/ \E peer \in connected, msg \in IncomingMessages(MaxTime) :
       \E sendOk \in SendOutcomes(msg) : OnMsg(peer, msg, sendOk)
  \/ \E peer \in connected, data \in DroppedPayloads : OnDropped(peer, data)
  \/ \E peer \in connected, data \in BinaryPayloads : OnBytes(peer, data)
  \/ \E user \in UserTexts, time \in Times, sendOk \in BOOLEAN :
       sendPrompt(DefaultSystemPrompt, user, DefaultMaxTokens, time, sendOk)
  \/ \E sendOk \in BOOLEAN : getModelInfo(sendOk)
  \/ LoadClick

\* the behaviours without a host-initiated reconnect
SpecOneClient == Init /\ [][NextOneClient]_vars

\* the form filled in freely, on one client whose peers connect and answer the
\* version negotiation
NextForm ==
  \/ LoadClick
  \/ \E peer \in Peers : PeerConnect(peer, TRUE, TRUE)
  \/ \E peer \in connected, compatible \in BOOLEAN :
       \E sendOk \in SendOutcomes(AckMsg(compatible)) :
         OnMsg(peer, AckMsg(compatible), sendOk)
  \/ \E system \in SystemTexts, user \in UserTexts,
        maxTokens \in MaxTokensTexts, time \in Times, sendOk \in BOOLEAN :
       sendPrompt(system, user, maxTokens, time, sendOk)

\* the behaviours in which every field of the form varies
SpecForm == Init /\ [][NextForm]_vars

(* ---------------------------------------------------------------------------- *)
(* Properties                                                                   *)
(* ---------------------------------------------------------------------------- *)

\* the prompt and get_model entries of the latest handler's sends
RequestSends == {i \in DOMAIN sendLog : sendLog[i].t \in {"prompt", "get_model"}}

\* the latest handler was a sendPrompt whose send succeeded
PromptJustSent ==
  Len(sendLog) = 1 /\ sendLog[1].t = "prompt" /\ sendLog[1].ok

\* the latest handler was the peerconnect handler
PeerJustConnected == sendLog # <<>> /\ sendLog[1].t = "hello"

\* some connected peer delivers msg and the msg handler runs
Delivered(msg) == \E peer \in connected : OnMsg(peer, msg, TRUE)

\* C1: a prompt or get_model reaches the wire only when the peer it is sent to
\* has itself acknowledged compatibility on its connection; while that peer is
\* in Init, Negotiating or Incompatible nothing is sent to it.
C1_SendsOnlyToCompatiblePeer ==
  \A i \in RequestSends : sendLog[i].ok => peerAck = "true"

\* C2: while the latest version_ack of the current peer's session says
\* compatible=false, no prompt or get_model reaches the wire, whatever earlier
\* acks said.
C2_IncompatibleAckBlocksSends ==
  peerAck = "false" => \A i \in RequestSends : ~sendLog[i].ok

\* C3: the visible buffer is the concatenation, in arrival order, of the tok
\* values of the token messages that carried the active id; nothing is
\* reordered, dropped or deduplicated.
C3_VisibleBufferIsConcatenation ==
  currentBuffer = Concat(visibleToks)

\* C3 witness: the same token arrived twice for the active id and is in the
\* buffer twice.
C3_Witness ==
  /\ visibleToks = << TokLo, TokLo >>
  /\ currentBuffer = << "l", "o", "l", "o" >>

\* C4: a token, reasoning_token or end tagged with the id of a prompt that was
\* just sent, for which no start has arrived, changes no stream state: nothing
\* is appended and nothing is completed.
C4_NoStreamBeforeStart ==
  [][ (PromptJustSent /\ ~UNCHANGED streamVars) =>
        /\ ~Delivered(IdMsg("end", sendLog[1].id))
        /\ \A ty \in {"token", "reasoning_token"}, k \in TokValues :
             ~Delivered(TokMsg(ty, sendLog[1].id, k)) ]_vars

\* C5: an error message whose id differs from a non-null active id leaves the
\* active id and both buffers as they were.
C5_ForeignErrorKeepsStream ==
  [][ (currentPromptId # Null /\ ~UNCHANGED streamVars) =>
        \A i \in IncomingIds(MaxTime) \ {Undefined, currentPromptId} :
          ~Delivered(ErrorMsg(i, MsgOom)) ]_vars

\* C6: when a start for id B has been handled while another id A was active,
\* the active id is B and both buffers are empty; and the buffers never hold
\* text of a token or reasoning_token that did not carry the active id (such
\* as one tagged A afterwards): each buffer is exactly the concatenation of
\* the accepted tok values.
C6_StartSupersedes ==
  /\ (startLog # <<>> /\ startLog[1].over # Null) =>
       /\ currentPromptId = startLog[1].id
       /\ currentPromptId # startLog[1].over
       /\ currentBuffer = <<>>
       /\ currentReasoningBuffer = <<>>
  /\ currentBuffer = Concat(visibleToks)
  /\ currentReasoningBuffer = Concat(reasoningToks)

\* C6 witness: a start for the first prompt's id has just replaced the active
\* id A, and the buffers hold nothing of A.
C6_Witness ==
  /\ startLog = << [id |-> PromptId(0), over |-> IdA] >>
  /\ currentPromptId = PromptId(0)
  /\ currentBuffer = <<>>
  /\ currentReasoningBuffer = <<>>

\* C7: the peerconnect handler attempts both sends, hello and then
\* version_negotiate, to the connecting peer, whatever the outcome of either
\* send, and leaves the session not yet acknowledged.
C7_BothHandshakeSendsAttempted ==
  PeerJustConnected =>
    /\ Len(sendLog) = 2
    /\ sendLog[2].t = "version_negotiate"
    /\ sendLog[2].to = sendLog[1].to
    /\ ~isVersionNegotiated

\* C8: between a peer-connect and the matching disconnect at most one
\* automatic get_model is sent to that peer.
C8_AutoGetModelAtMostOnce ==
  autoCount <= 1

\* C9: when a peer connects after every earlier peer has disconnected, the
\* session starts with no active id, empty buffers, no cached model info and
\* an unacknowledged negotiation.
C9_FreshSessionOnConnect ==
  (PeerJustConnected /\ Cardinality(connected) = 1) =>
    /\ currentPromptId = Null
    /\ currentBuffer = <<>>
    /\ currentReasoningBuffer = <<>>
    /\ currentModelInfo = {}
    /\ ~isVersionNegotiated
    /\ ~isCompatible

\* the events of a peer: its connect, its disconnect and the messages it
\* sends while it is connected
EventOf(peer) ==
  \/ \E helloOk \in BOOLEAN, negotiateOk \in BOOLEAN :
       PeerConnect(peer, helloOk, negotiateOk)
  \/ PeerClose(peer)
  \/ \E msg \in IncomingMessages(MaxTime) :
       \E sendOk \in SendOutcomes(msg) :
         peer \in connected /\ OnMsg(peer, msg, sendOk)

\* C10: while the current peer is connected, no event of another peer changes
\* the negotiation flags, the cached model info or the stream state.
C10_PeersIndependent ==
  [][ \A peer \in Peers :
        (currentPeer \in connected /\ peer # currentPeer /\ EventOf(peer)) =>
          UNCHANGED << isVersionNegotiated, isCompatible, currentModelInfo,
                       streamVars >> ]_vars

\* C11: a message that arrives for a peer with no live session (never
\* connected, or already disconnected) is dropped: no negotiation, model-info
\* or stream variable changes and nothing is sent.
C11_StrayMessageDropped ==
  [][ \A peer \in StrayPeers, msg \in IncomingMessages(MaxTime) :
        \A sendOk \in SendOutcomes(msg) :
          OnMsg(peer, msg, sendOk) =>
            (UNCHANGED << sessionVars, streamVars >> /\ sendLog' = <<>>) ]_vars

\* C12: once the current peer has sent a version_ack, then for as long as it
\* stays connected the session stays negotiated (it never returns to Init or
\* Negotiating), and it is Compatible exactly when that peer's latest
\* version_ack said compatible=true.
C12_AckIsTerminal ==
  [][ (peerAck # "none" /\ currentPeer \in connected') =>
        /\ isVersionNegotiated'
        /\ peerAck' # "none" => (isCompatible' <=> peerAck' = "true") ]_vars

\* the latest handler completed a stream: it set the completion status
StreamJustCompleted ==
  statusLog = << St("Completion finished successfully.", FALSE, <<>>) >>

\* the latest handler was given a message of kind k
JustHandled(k) == msgLog # <<>> /\ msgLog[1].kind = k

\* C13: an end carrying the active id reports completion and clears the active
\* id while both buffers keep exactly the text accepted so far; an end whose
\* id is missing or is not the active id changes no state.
C13_EndCompletesOrIsIgnored ==
  /\ StreamJustCompleted =>
       /\ currentPromptId = Null
       /\ currentBuffer = Concat(visibleToks)
       /\ currentReasoningBuffer = Concat(reasoningToks)
  /\ JustHandled("end for mismatched id") => ~msgLog[1].changed

\* C13 witness: start, token 'Hel', token 'lo', end: the stream is completed
\* with the visible buffer 'Hello'.
C13_Witness ==
  /\ StreamJustCompleted
  /\ currentPromptId = Null
  /\ visibleToks = << TokHel, TokLo >>
  /\ currentBuffer = << "H", "e", "l", "l", "o" >>

\* the latest handler handled an error message: it set the error status
ErrorJustHandled == statusLog # <<>> /\ statusLog[1].text = "Error from server: "

\* C14: once an error message has been handled (in particular one received
\* with no active id, or carrying the active id) the status reports the error
\* with the message's text, the active id is null, and no later token is
\* appended for the id that was active: the buffers stay the concatenation of
\* the tokens accepted while it was.
C14_ErrorEndsStream ==
  /\ ErrorJustHandled =>
       /\ statusLog = << St("Error from server: ", TRUE, MsgOom) >>
       /\ currentPromptId = Null
  /\ currentPromptId = Null =>
       /\ currentBuffer = Concat(visibleToks)
       /\ currentReasoningBuffer = Concat(reasoningToks)

\* C14 witness: start, a token, then error 'oom': the error is reported, no id
\* is active and the buffer holds the text accepted before the error.
C14_Witness ==
  /\ statusLog = << St("Error from server: ", TRUE, MsgOom) >>
  /\ currentPromptId = Null
  /\ currentBuffer = TokHel

\* C15: whatever the state it arrives in, a start that carries an id makes
\* that id the active id and leaves both buffers empty; a start without an id
\* changes no state.
C15_StartAlwaysAccepted ==
  /\ startLog # <<>> =>
       /\ currentPromptId = startLog[1].id
       /\ currentBuffer = <<>>
       /\ currentReasoningBuffer = <<>>
  /\ JustHandled("start without id") => ~msgLog[1].changed

\* C15 witness: a start for A was accepted while the first prompt's id was
\* active.
C15_Witness ==
  /\ startLog = << [id |-> IdA, over |-> PromptId(0)] >>
  /\ currentPromptId = IdA
  /\ currentBuffer = <<>>

\* a session that has just begun: a peer has connected and no other peer is
\* connected
FreshSession == PeerJustConnected /\ Cardinality(connected) = 1

\* C16: the buffers hold text only for a stream of the session; in the Idle
\* state of a freshly connected session both buffers are empty.
C16_BuffersEmptyInIdle ==
  FreshSession => (currentBuffer = <<>> /\ currentReasoningBuffer = <<>>)

\* C17: the two channels are buffered independently: each buffer is the
\* concatenation, in arrival order, of the tok values of the messages of its
\* own type that carried the active id, so a token never changes the
\* reasoning buffer and a reasoning_token never changes the visible buffer.
C17_ChannelsIndependent ==
  /\ currentReasoningBuffer = Concat(reasoningToks)
  /\ currentBuffer = Concat(visibleToks)

\* C17 witness: a token 'lo' and a reasoning_token 'Hel' were accepted for the
\* same stream, and each is in its own buffer only.
C17_Witness ==
  /\ reasoningToks = << TokHel >>
  /\ visibleToks = << TokLo >>
  /\ currentReasoningBuffer = << "H", "e", "l" >>
  /\ currentBuffer = << "l", "o" >>

\* C18: after a model_info message the cache holds exactly the record of that
\* message, whatever it held before.
C18_ModelInfoReplaced ==
  JustHandled("model_info") => currentModelInfo = msgLog[1].model

\* C18 witness: after a compatible version_ack and the automatic get_model,
\* model_info {m1, Test, true} is cached as it came.
C18_Witness ==
  /\ JustHandled("model_info")
  /\ peerAck = "true" /\ autoCount = 1
  /\ currentModelInfo =
       {[id |-> ModelM1, displayName |-> NameTest, installed |-> TRUE]}

\* C19: a payload that does not decode, a message with an unknown t and a
\* hello each leave the session and stream variables unchanged and send
\* nothing.
C19_UndecodableAndUnknownIgnored ==
  \A k \in {"dropped", "unknown type", "hello"} :
    JustHandled(k) => ~msgLog[1].changed

\* C19 witness: a payload was dropped while a stream with text was active in a
\* compatible session.
C19_Witness ==
  /\ JustHandled("dropped")
  /\ ~msgLog[1].changed
  /\ currentPromptId = IdA
  /\ currentBuffer = TokHel
  /\ isCompatible

\* the latest handler was a sendPrompt whose send threw
PromptSendFailed ==
  Len(sendLog) = 1 /\ sendLog[1].t = "prompt" /\ ~sendLog[1].ok

\* C20: a prompt send that throws is caught and reported as a status, and the
\* active id and both buffers (and the session) are exactly as before the
\* attempt.
C20_FailedSendChangesNothing ==
  PromptSendFailed =>
    /\ msgLog = << [kind |-> "prompt not sent", model |-> {}, changed |-> FALSE] >>
    /\ statusLog = << St("Failed to send prompt over P2PCF.", TRUE, <<>>) >>

\* C20 witness: the send threw while a stream with text was active, and the
\* stream is still there.
C20_Witness ==
  /\ PromptSendFailed
  /\ currentPromptId = IdA
  /\ currentBuffer = TokHel

(* ---------------------------------------------------------------------------- *)
(* The request built by sendPrompt                                              *)
(* ---------------------------------------------------------------------------- *)

\* the prompt sends the latest handler attempted
PromptSends == {i \in DOMAIN sendLog : sendLog[i].t = "prompt"}

\* C21: a prompt sent right after another prompt carries an id different from
\* the id of that prompt (the claim for the closest of the earlier prompts).
C21_PromptIdsDiffer ==
  [][(PromptJustSent /\ PromptJustSent') => sendLog'[1].id # sendLog[1].id]_vars

\* a finite number greater than zero
FinitePositive(n) == n.kind = "finite" /\ ~n.neg /\ n.digits # <<>>

\* C22: max_tokens is in an outgoing prompt only when the value of the box
\* parses as a finite number greater than zero, and then it is that number;
\* for an empty box, zero and a negative value it is omitted (a text that is
\* NaN or infinite is an empty box), so that it is never sent as zero,
\* negative, NaN or a value that is not a number.
C22_MaxTokensFinitePositive ==
  /\ \A i \in PromptSends :
       \A n \in sendLog[i].body.max_tokens : FinitePositive(n)
  /\ \A value \in MaxTokensTexts, user \in UserTexts :
       PromptBody(DefaultSystemPrompt, user, value).max_tokens =
         { n \in {NumberOf(value)} : FinitePositive(n) }

\* C22 witness: a prompt went out with the max_tokens 1.5 read from the box;
\* with the box empty, 0 or -5 the same prompt goes out without the field.
C22_Witness ==
  /\ PromptJustSent
  /\ sendLog[1].body.max_tokens = { JsNumber("finite", FALSE, << "1", "5" >>, 0 - 1) }
  /\ \A value \in { <<>>, << "0" >>, << "-", "5" >> } :
       PromptBody(DefaultSystemPrompt, << "h", "i" >>, value).max_tokens = {}

\* sendPrompt found the trimmed user message empty
BlankJustRejected ==
  statusLog = << St("Enter a user message before sending.", TRUE, <<>>) >>

\* C23: when the user message is empty after trimming, the call ends with the
\* validation status, no prompt is sent, and the active id, both buffers and
\* the session are unchanged; so no prompt ever carries an empty user message.
C23_BlankUserRejected ==
  /\ BlankJustRejected =>
       /\ sendLog = <<>>
       /\ msgLog =
            << [kind |-> "blank user message", model |-> {}, changed |-> FALSE] >>
  /\ JustHandled("blank user message") => BlankJustRejected
  /\ \A i \in PromptSends :
       LET messages == sendLog[i].body.messages
       IN  messages[Len(messages)].content # <<>>

\* C23 witness: a blank user message was rejected while a stream with text was
\* active, and the stream is still there.
C23_Witness ==
  /\ BlankJustRejected
  /\ currentPromptId = IdA
  /\ currentBuffer = TokHel

\* a message of the messages array with a trimmed, non-empty content
WellFormed(message, role) ==
  /\ message.role = role
  /\ message.content # <<>>
  /\ Trim(message.content) = message.content

\* C24: the messages of every prompt sent are [user] or [system, user], with
\* trimmed contents; the system message is there, and first, exactly when the
\* trimmed system prompt is not empty, and the trimmed user message is last.
C24_MessagesShape ==
  /\ \A i \in PromptSends :
       LET messages == sendLog[i].body.messages
       IN  \/ Len(messages) = 1 /\ WellFormed(messages[1], "user")
           \/ /\ Len(messages) = 2
              /\ WellFormed(messages[1], "system")
              /\ WellFormed(messages[2], "user")
  /\ \A system \in SystemTexts, user \in UserTexts :
       LET messages == BuildMessages(system, user)
       IN  /\ Len(messages) = (IF Trim(system) # <<>> THEN 2 ELSE 1)
           /\ messages[Len(messages)] = [role |-> "user", content |-> Trim(user)]
           /\ Trim(system) # <<>> =>
                messages[1] = [role |-> "system", content |-> Trim(system)]

\* C24 witness: a prompt went out with the trimmed system prompt first and the
\* trimmed user message after it, and another could go out without a system
\* message.
C24_Witness ==
  /\ PromptJustSent
  /\ sendLog[1].body.messages =
       << [role |-> "system", content |-> << "B", "e" >>],
          [role |-> "user", content |-> << "h", "i" >>] >>

\* C26: a prompt send that returned while a stream was in flight makes the id
\* of the new prompt the active id and empties both buffers, and a token or
\* reasoning_token that arrives afterwards tagged with the id that was active
\* before the send is not appended: the token cases find its id mismatched.
C26_PromptSupersedes ==
  [][ \A user \in UserTexts, time \in Times, old \in {currentPromptId} :
        ( /\ old # Null
          /\ CanSend
          /\ ~BlankUser(user)
          /\ sendPrompt(DefaultSystemPrompt, user, DefaultMaxTokens, time, TRUE) )
        => /\ currentPromptId' = PromptId(time)
           /\ currentBuffer' = <<>>
           /\ currentReasoningBuffer' = <<>>
           /\ \A ty \in {"token", "reasoning_token"}, k \in Toks :
                Mismatched(TokMsg(ty, old, k))' ]_vars

(* ---------------------------------------------------------------------------- *)
(* The session flags and the peer reference                                     *)
(* ---------------------------------------------------------------------------- *)

\* C27: in every reachable state the compatible flag implies the negotiated
\* flag: no sequence of peerconnect, peerclose and version_ack events leaves
\* the session compatible but not negotiated.
C27_CompatibleImpliesNegotiated == isCompatible => isVersionNegotiated

\* C27 witness: both peers are connected and a compatible version_ack has been
\* handled since the later connect reset the flags.
C27_Witness ==
  /\ connected = Peers
  /\ isVersionNegotiated
  /\ isCompatible

\* C28: without a host-initiated reconnect, the current peer is null or a peer
\* that is connected at that moment, and every prompt or get_model send was
\* addressed to a peer connected at the time.
C28_CurrentPeerConnected ==
  /\ currentPeer = NoPeer \/ currentPeer \in connected
  /\ \A i \in RequestSends : sendLog[i].to \in connected

\* C28 witness: the peer that connected last has disconnected while the other
\* one stays connected, and a prompt was rejected for want of a current peer.
C28_Witness ==
  /\ connected = {"p1"}
  /\ currentPeer = NoPeer
  /\ statusLog =
       << St("Cannot send prompt: not connected to any peer.", TRUE, <<>>) >>

\* C29: while no peer has connected on the client in use, as after a
\* host-initiated reconnect, a prompt or get_model send is rejected: none is
\* attempted.
C29_NoSendBeforePeerOnNewClient == connected = {} => RequestSends = {}

(* ---------------------------------------------------------------------------- *)
(* Binary payloads                                                              *)
(* ---------------------------------------------------------------------------- *)

\* C25: a message delivered as bytes, an ArrayBuffer or a view of any range of
\* a larger buffer, is handled exactly like the text its own bytes decode to:
\* every step the handler takes on a binary payload is the step it takes on
\* that text.
C25_BytesHandledAsText ==
  [][\A peer \in Peers, data \in BinaryPayloads :
       OnBytes(peer, data) => OnDecoded(peer, ViewedBytes(data))]_vars

====
